---- MODULE Spec2Model ----
(***************************************************************************)
(* Supervision, health determination and status distribution of the CARLA  *)
(* multi-server launcher (carla_athena_multiserver_v3.py) and of its       *)
(* dashboard (dashboard.py).                                               *)
(*                                                                         *)
(* Every operating-system process has its own copy of the module globals   *)
(* SERVER_STATUS, SERVER_PROCESSES, LOG_DIR and STATUS_LOCK: they are kept  *)
(* here as functions of the process.  main() starts each supervisor with   *)
(* multiprocessing's "spawn" start method, so a worker re-imports the       *)
(* module and begins with empty dictionaries and LOG_DIR = None.           *)
(***************************************************************************)
EXTENDS Integers, Sequences, FiniteSets, TLC

\* ------------------------------------------------------------ configuration
NUM_SERVERS == 2
SERVERS_PER_GPU == 2
NUM_GPUS == 1
START_PORT == 2000
PORT_STEP == 100
DASH_PORT_STEP == 100

\* ------------------------------------------------------------ model bounds
MaxRestarts == 1
MaxCycles == 2
\* subscribers of /stream, and rounds of event_stream() per subscriber
NumSubscribers == 2
MaxEvents == 2

\* settings tried for the launcher file: instances, devices, instances per device
MaxConfigServers == 4
MaxConfigGpus == 2
MaxPerGpu == 2
StartPorts == {2000, 3000}
PortSteps == {1, 100, 1000}

Indices == 0 .. (NUM_SERVERS - 1)

\* Python's None, for string-valued and for number-valued fields
NoneS == "None"
NoneN == -1

\* processes: the launcher, and the worker process in which supervise(i) runs
MainProc == 0
Worker(i) == i + 1
Procs == {MainProc} \cup {Worker(i) : i \in Indices}

\* threads that call update_server_status: supervisor i is thread i
HealthThread == NUM_SERVERS
Threads == Indices \cup {HealthThread}
NoThread == -1

\* supervise(idx): the port given to the child with -carla-rpc-port
Port(idx) == START_PORT + (idx * PORT_STEP)
ExpectedPorts == {Port(i) : i \in Indices}

\* initialize_server_status(): the port written into the record
InitPort(idx) == START_PORT + (idx * PORT_STEP)

\* a slip that would count the health check's ports from one
HealthPortFromOne(idx) == START_PORT + ((idx + 1) * PORT_STEP)

\* health_check_monitor(): the port looked up in the listening set
HealthPort(idx) == START_PORT + (idx * PORT_STEP)

GPU_MAP == [i \in 0 .. (NUM_GPUS * SERVERS_PER_GPU - 1) |-> (i \div SERVERS_PER_GPU) + 1]
\* supervise(idx): gpu_id = GPU_MAP.get(idx, 1)
GpuOf(idx) == IF idx \in DOMAIN GPU_MAP THEN GPU_MAP[idx] ELSE 1

\* initialize_server_status(): 'gpu_id': GPU_MAP.get(idx, 1)
InitGpu(idx) == IF idx \in DOMAIN GPU_MAP THEN GPU_MAP[idx] ELSE 1

\* the settings as the file has them
Settings == [NUM_SERVERS |-> NUM_SERVERS, NUM_GPUS |-> NUM_GPUS,
             SERVERS_PER_GPU |-> SERVERS_PER_GPU,
             START_PORT |-> START_PORT, PORT_STEP |-> PORT_STEP]
\* settings a user may write, and device counts a machine may report
Configs == [NUM_SERVERS : 1 .. MaxConfigServers, NUM_GPUS : 0 .. MaxConfigGpus,
            SERVERS_PER_GPU : 1 .. MaxPerGpu,
            START_PORT : StartPorts, PORT_STEP : PortSteps]

\* carla_athena_multiserver_v3: GPU_MAP over range(NUM_GPUS * SERVERS_PER_GPU)
GpuMapV3(c) ==
    [i \in 0 .. (c.NUM_GPUS * c.SERVERS_PER_GPU - 1) |-> (i \div c.SERVERS_PER_GPU) + 1]
\* carla_multiserver: GPU_MAP over range(NUM_GPUS)
GpuMapMultiserver(c) ==
    [i \in 0 .. (c.NUM_GPUS - 1) |-> (i \div c.SERVERS_PER_GPU) + 1]

\* a slip that would leave an unmapped index on device 0
GetOrZero(map, idx) == IF idx \in DOMAIN map THEN map[idx] ELSE 0

\* GPU_MAP.get(idx, 1)
GetOrOne(map, idx) == IF idx \in DOMAIN map THEN map[idx] ELSE 1

\* supervise(idx): -carla-rpc-port and -graphicsadapter of cmd
SuperviseCmd(c, map, idx) ==
    [port |-> c.START_PORT + (idx * c.PORT_STEP), gpu_id |-> GetOrOne(map, idx)]

\* dashboard fallback: port = START_PORT + (idx * 100), START_PORT and
\* NUM_SERVERS being the ones start_dashboard() put in the environment
DashFallbackPorts(c) ==
    [idx \in 0 .. (c.NUM_SERVERS - 1) |-> c.START_PORT + (idx * DASH_PORT_STEP)]

\* pid of the n-th child launched for instance i
Pid(i, n) == 100 * (i + 1) + n

ExitCodes == {0, 1}
ExitCodeText(c) == IF c = 0 THEN "Exit code: 0" ELSE "Exit code: 1"
LaunchErrorText == "launch failed"

EmptyDict == [x \in {} |-> x]

InitRecord(idx) ==
    [index |-> idx, port |-> InitPort(idx), gpu_id |-> InitGpu(idx),
     process_status |-> "NOT_STARTED", health_status |-> "UNKNOWN",
     last_health_check |-> NoneN, restart_count |-> 0, uptime_start |-> NoneN,
     last_error |-> NoneS, pid |-> NoneN, memory_mb |-> 0, cpu_percent |-> 0]

initialize_server_status == [idx \in Indices |-> InitRecord(idx)]

\* LOG_DIR is assigned by main() only: it stays None in a spawned worker
LOG_DIR(p) == p = MainProc

VARIABLES
    main_pc,            \* position of main()
    dash,               \* the dashboard process
    STOP_MONITORING,    \* threading.Event of the launcher
    SERVER_STATUS,      \* per process: dict idx -> record
    SERVER_PROCESSES,   \* per process: dict idx -> Popen handle (launch ordinal)
    STATUS_LOCK,        \* per process: thread holding the lock, or NoThread
    statusFile,         \* dashboard_status.json
    health_pc, h_idx, cycle, listening_ports, lsof_failed, h_kwargs,
    lsof_calls,         \* calls of get_listening_ports_lsof() in the cycle (history)
    h_seen,             \* what the latest check of the cycle saw (history)
    sup_pc, restart_count, proc, child, killpg,
    upd, enc,           \* per thread: position inside update_server_status
    runsIn,             \* per instance: the process in which supervise(idx) runs
    dash_result,        \* what the latest get_server_status() returned
    ENABLE_DASHBOARD,   \* the module's flag of that name
    stream_pc,          \* per subscriber: position of its event_stream() generator
    stream_event,       \* per subscriber: the event its generator has yielded
    client,             \* per subscriber: what the client end of the connection does
    built,              \* per subscriber: outcome of each round's try body (history)
    received,           \* per subscriber: the events delivered, in order
    log_files,          \* the files of LOG_DIR that /api/logs can name
    log_reply,          \* what the latest /api/logs request returned
    cfg,                \* the settings at the top of the launcher file
    cmd,                \* per launcher file and index: port and device on the command line
    fallback_ports      \* per index: the port of the dashboard's fallback snapshot

vars == <<main_pc, dash, STOP_MONITORING, SERVER_STATUS, SERVER_PROCESSES,
          STATUS_LOCK, statusFile, health_pc, h_idx, cycle, listening_ports,
          lsof_failed, h_kwargs, h_seen, sup_pc, restart_count, proc,
          child, killpg, upd, enc, runsIn, dash_result, lsof_calls,
          ENABLE_DASHBOARD, stream_pc, stream_event, client, built, received,
          log_files, log_reply, cfg, cmd, fallback_ports>>

mainVars == <<main_pc, dash, STOP_MONITORING>>
healthVars == <<health_pc, h_idx, cycle, listening_ports, lsof_failed, h_kwargs, h_seen,
                lsof_calls>>
supVars == <<sup_pc, restart_count, proc, child, killpg>>
memVars == <<SERVER_STATUS, STATUS_LOCK, statusFile, upd, enc>>
streamVars == <<stream_pc, stream_event, client, built, received>>
logVars == <<log_files, log_reply>>
configVars == <<cfg, cmd, fallback_ports>>
fixedVars == <<runsIn, dash_result, ENABLE_DASHBOARD, streamVars, logVars, configVars>>

ProcOf(t) == IF t = HealthThread THEN MainProc ELSE runsIn[t]

MissingFile == [kind |-> "missing", servers |-> <<>>]
TruncatedFile == [kind |-> "truncated", servers |-> <<>>]

\* list(SERVER_STATUS.values()): the records in the order of their keys
Values(d) == [k \in 1 .. Cardinality(DOMAIN d) |->
                d[CHOOSE i \in DOMAIN d : Cardinality({j \in DOMAIN d : j < i}) = k - 1]]

\* ---------------------------------------------------- update_server_status
\* a slip that would enter without waiting for the lock
LockNotTaken(p) == TRUE

\* `with STATUS_LOCK:` blocks until the lock is free
LockFree(p) == STATUS_LOCK[p] = NoThread

\* a slip that would build the record anew from the fields given
MergeOntoFreshRecord(store, idx, kwargs) ==
    [store EXCEPT ![idx] = kwargs @@ InitRecord(idx)]

\* SERVER_STATUS[idx].update(kwargs)
Merge(store, idx, kwargs) == [store EXCEPT ![idx] = kwargs @@ @]

\* a slip that would merge and forget to call save_status_to_file
update_server_status_without_save(t, idx, kwargs) ==
    LET p == ProcOf(t) IN
    /\ upd[t] = "none"
    /\ LockFree(p)
    /\ IF idx \in DOMAIN SERVER_STATUS[p]
         THEN SERVER_STATUS' = [SERVER_STATUS EXCEPT ![p] = Merge(@, idx, kwargs)]
         ELSE UNCHANGED SERVER_STATUS
    /\ UNCHANGED <<STATUS_LOCK, upd, statusFile, enc>>

\* the call: take the lock and, for a known index, merge; the save follows
\* in SaveOpen/SaveDump. For an unknown index the lock is released at once.
update_server_status(t, idx, kwargs) ==
    LET p == ProcOf(t) IN
    /\ upd[t] = "none"
    /\ LockFree(p)
    /\ IF idx \in DOMAIN SERVER_STATUS[p]
         THEN /\ SERVER_STATUS' = [SERVER_STATUS EXCEPT ![p] = Merge(@, idx, kwargs)]
              /\ STATUS_LOCK' = [STATUS_LOCK EXCEPT ![p] = t]
              /\ upd' = [upd EXCEPT ![t] = "save"]
         ELSE UNCHANGED <<SERVER_STATUS, STATUS_LOCK, upd>>
    /\ UNCHANGED <<statusFile, enc>>

\* save_status_to_file, first half: open(status_file, 'w') truncates the file
\* and json.dump starts encoding (it has read the fields up to process_status
\* of each record). Without a LOG_DIR nothing is saved.
SaveOpen(t) ==
    LET p == ProcOf(t) IN
    /\ upd[t] = "save"
    /\ IF LOG_DIR(p)
         THEN /\ statusFile' = TruncatedFile
              /\ enc' = [enc EXCEPT ![t] =
                           [k \in 1 .. Cardinality(DOMAIN SERVER_STATUS[p]) |->
                               Values(SERVER_STATUS[p])[k].process_status]]
              /\ upd' = [upd EXCEPT ![t] = "dump"]
              /\ UNCHANGED STATUS_LOCK
         ELSE /\ upd' = [upd EXCEPT ![t] = "none"]
              /\ STATUS_LOCK' = [STATUS_LOCK EXCEPT ![p] = NoThread]
              /\ UNCHANGED <<statusFile, enc>>
    /\ UNCHANGED <<SERVER_STATUS, mainVars, healthVars, supVars, SERVER_PROCESSES, fixedVars>>

\* a slip that would let the I/O error out of save_status_to_file: it ends the
\* thread that called update_server_status
SaveFailPropagates(t) ==
    LET p == ProcOf(t) IN
    /\ upd[t] = "save"
    /\ LOG_DIR(p)
    /\ upd' = [upd EXCEPT ![t] = "none"]
    /\ STATUS_LOCK' = [STATUS_LOCK EXCEPT ![p] = NoThread]
    /\ health_pc' = IF t = HealthThread THEN "crashed" ELSE health_pc
    /\ sup_pc' = [i \in Indices |-> IF i = t THEN "crashed" ELSE sup_pc[i]]
    /\ UNCHANGED <<statusFile, enc, SERVER_STATUS, mainVars, SERVER_PROCESSES, fixedVars>>
    /\ UNCHANGED <<h_idx, cycle, listening_ports, lsof_failed, h_kwargs, h_seen, lsof_calls>>
    /\ UNCHANGED <<restart_count, proc, child, killpg>>

\* save_status_to_file when open() raises (an I/O error): `except Exception:
\* pass`, the file is left as it was and update_server_status returns
SaveFail(t) ==
    LET p == ProcOf(t) IN
    /\ upd[t] = "save"
    /\ LOG_DIR(p)
    /\ upd' = [upd EXCEPT ![t] = "none"]
    /\ STATUS_LOCK' = [STATUS_LOCK EXCEPT ![p] = NoThread]
    /\ UNCHANGED <<statusFile, enc>>
    /\ UNCHANGED <<SERVER_STATUS, mainVars, healthVars, supVars, SERVER_PROCESSES, fixedVars>>

\* a slip that would return from update_server_status with the lock held
SaveDumpKeepsLock(t) ==
    LET p == ProcOf(t) IN
    /\ upd[t] = "dump"
    /\ statusFile' = [kind |-> "doc",
                      servers |-> [k \in 1 .. Len(enc[t]) |->
                                     [Values(SERVER_STATUS[p])[k] EXCEPT
                                        !.process_status = enc[t][k]]]]
    /\ enc' = [enc EXCEPT ![t] = <<>>]
    /\ upd' = [upd EXCEPT ![t] = "none"]
    /\ UNCHANGED <<STATUS_LOCK, SERVER_STATUS, mainVars, healthVars, supVars,
                   SERVER_PROCESSES, fixedVars>>

\* save_status_to_file, second half: the rest of each record is encoded, the
\* document is written and closed, and the lock is released.
SaveDump(t) ==
    LET p == ProcOf(t) IN
    /\ upd[t] = "dump"
    /\ statusFile' = [kind |-> "doc",
                      servers |-> [k \in 1 .. Len(enc[t]) |->
                                     [Values(SERVER_STATUS[p])[k] EXCEPT
                                        !.process_status = enc[t][k]]]]
    /\ enc' = [enc EXCEPT ![t] = <<>>]
    /\ upd' = [upd EXCEPT ![t] = "none"]
    /\ STATUS_LOCK' = [STATUS_LOCK EXCEPT ![p] = NoThread]
    /\ UNCHANGED <<SERVER_STATUS, mainVars, healthVars, supVars, SERVER_PROCESSES, fixedVars>>

\* ------------------------------------------------------------- supervise
Unbound == 0

TerminalPcs == {"returned", "crashed", "killed"}
\* positions inside the `try:` body, and inside the `except Exception:` handler
TryPcs == {"loop", "popen", "reg", "pub_running", "wait", "pub_exited", "sleep"}
HandlerPcs == {"pub_error", "err_sleep"}
\* positions reached only through a KeyboardInterrupt
InterruptPcs == {"kbd", "kill", "returned", "crashed"}

\* a slip that would call supervise(idx) one instance after the other
SupReadyInTurn(i, pc) ==
    /\ sup_pc[i] = pc
    /\ upd[i] = "none"
    /\ \A j \in Indices : j < i => sup_pc[j] \in TerminalPcs

SupReady(i, pc) == sup_pc[i] = pc /\ upd[i] = "none"

\* the frame of a supervisor step that only moves supervise(i) along
SupFrame == UNCHANGED <<mainVars, healthVars, SERVER_PROCESSES, fixedVars>>

\* update_server_status(idx, process_status='STARTING', restart_count=..., uptime_start=time())
SupPublishStarting(i) ==
    /\ SupReady(i, "loop")
    /\ restart_count[i] <= MaxRestarts
    /\ update_server_status(i, i, [process_status |-> "STARTING",
                                   restart_count |-> restart_count[i],
                                   uptime_start |-> restart_count[i] + 1])
    /\ sup_pc' = [sup_pc EXCEPT ![i] = "popen"]
    /\ UNCHANGED <<restart_count, proc, child, killpg>>
    /\ SupFrame

\* a slip that would take a failed launch for a launch
SupPopenFailureUnnoticed(i) ==
    /\ SupReady(i, "popen")
    /\ \E ok \in BOOLEAN :
         IF ok
           THEN /\ proc' = [proc EXCEPT ![i] = @ + 1]
                /\ child' = [child EXCEPT ![i] = "alive"]
                /\ killpg' = [killpg EXCEPT ![i] = FALSE]
                /\ sup_pc' = [sup_pc EXCEPT ![i] = "reg"]
           ELSE /\ sup_pc' = [sup_pc EXCEPT ![i] = "reg"]
                /\ UNCHANGED <<proc, child, killpg>>
    /\ UNCHANGED <<restart_count, memVars>>
    /\ SupFrame

\* proc = subprocess.Popen(cmd, preexec_fn=os.setsid, ...): a child, or an error
SupPopen(i) ==
    /\ SupReady(i, "popen")
    /\ \E ok \in BOOLEAN :
         IF ok
           THEN /\ proc' = [proc EXCEPT ![i] = @ + 1]
                /\ child' = [child EXCEPT ![i] = "alive"]
                /\ killpg' = [killpg EXCEPT ![i] = FALSE]
                /\ sup_pc' = [sup_pc EXCEPT ![i] = "reg"]
           ELSE /\ sup_pc' = [sup_pc EXCEPT ![i] = "pub_error"]
                /\ UNCHANGED <<proc, child, killpg>>
    /\ UNCHANGED <<restart_count, memVars>>
    /\ SupFrame

\* SERVER_PROCESSES[idx] = proc
SupRegister(i) ==
    /\ SupReady(i, "reg")
    /\ SERVER_PROCESSES' = [SERVER_PROCESSES EXCEPT ![runsIn[i]] = (i :> proc[i]) @@ @]
    /\ sup_pc' = [sup_pc EXCEPT ![i] = "pub_running"]
    /\ UNCHANGED <<restart_count, proc, child, killpg, memVars>>
    /\ UNCHANGED <<mainVars, healthVars, fixedVars>>

\* a slip that would have the supervisor vouch for the instance's health
SupPublishRunningAsHealthy(i) ==
    /\ SupReady(i, "pub_running")
    /\ update_server_status(i, i, [process_status |-> "RUNNING", pid |-> Pid(i, proc[i]),
                                   health_status |-> "HEALTHY"])
    /\ sup_pc' = [sup_pc EXCEPT ![i] = "wait"]
    /\ UNCHANGED <<restart_count, proc, child, killpg>>
    /\ SupFrame

\* update_server_status(idx, process_status='RUNNING', pid=proc.pid)
SupPublishRunning(i) ==
    /\ SupReady(i, "pub_running")
    /\ update_server_status(i, i, [process_status |-> "RUNNING", pid |-> Pid(i, proc[i])])
    /\ sup_pc' = [sup_pc EXCEPT ![i] = "wait"]
    /\ UNCHANGED <<restart_count, proc, child, killpg>>
    /\ SupFrame

\* for line in proc.stdout: ...; proc.wait()  -- returns once the child has
\* exited; proc.returncode is read when EXITED is published
SupWait(i) ==
    /\ SupReady(i, "wait")
    /\ child[i] = "exited"
    /\ sup_pc' = [sup_pc EXCEPT ![i] = "pub_exited"]
    /\ UNCHANGED <<restart_count, proc, child, killpg, memVars>>
    /\ SupFrame

\* update_server_status(idx, process_status='EXITED', last_error=f"Exit code: {proc.returncode}")
SupPublishExited(i) ==
    /\ SupReady(i, "pub_exited")
    /\ \E c \in ExitCodes :
         update_server_status(i, i, [process_status |-> "EXITED",
                                     last_error |-> ExitCodeText(c)])
    /\ sup_pc' = [sup_pc EXCEPT ![i] = "sleep"]
    /\ UNCHANGED <<restart_count, proc, child, killpg>>
    /\ SupFrame

\* a slip that would leave the loop after the child's exit
SupSleepThenBreak(i) ==
    /\ SupReady(i, "sleep")
    /\ restart_count' = [restart_count EXCEPT ![i] = @ + 1]
    /\ sup_pc' = [sup_pc EXCEPT ![i] = "returned"]
    /\ UNCHANGED <<proc, child, killpg, memVars>>
    /\ SupFrame

\* restart_count += 1; sleep(DELAY); back to the top of `while True`
SupSleep(i) ==
    /\ SupReady(i, "sleep")
    /\ restart_count' = [restart_count EXCEPT ![i] = @ + 1]
    /\ sup_pc' = [sup_pc EXCEPT ![i] = "loop"]
    /\ UNCHANGED <<proc, child, killpg, memVars>>
    /\ SupFrame

\* except Exception as exc: update_server_status(idx, process_status='ERROR', last_error=str(exc))
SupPublishError(i) ==
    /\ SupReady(i, "pub_error")
    /\ update_server_status(i, i, [process_status |-> "ERROR", last_error |-> LaunchErrorText])
    /\ sup_pc' = [sup_pc EXCEPT ![i] = "err_sleep"]
    /\ UNCHANGED <<restart_count, proc, child, killpg>>
    /\ SupFrame

\* a slip that would retry a failed launch without counting it
SupErrorSleepUncounted(i) ==
    /\ SupReady(i, "err_sleep")
    /\ sup_pc' = [sup_pc EXCEPT ![i] = "loop"]
    /\ UNCHANGED <<restart_count, proc, child, killpg, memVars>>
    /\ SupFrame

\* (in the handler) restart_count += 1; sleep(DELAY)
SupErrorSleep(i) ==
    /\ SupReady(i, "err_sleep")
    /\ restart_count' = [restart_count EXCEPT ![i] = @ + 1]
    /\ sup_pc' = [sup_pc EXCEPT ![i] = "loop"]
    /\ UNCHANGED <<proc, child, killpg, memVars>>
    /\ SupFrame

\* The keyboard interrupt is a SIGINT to the foreground process group: the
\* launcher and its workers (the CARLA children sit in sessions of their own).
\* It reaches worker i, where KeyboardInterrupt is raised in supervise: inside
\* the try body it is caught by `except KeyboardInterrupt`; inside the
\* `except Exception` handler no clause catches it and it leaves supervise.
\* (restart_count and the exit code are not read after this point.)
\* Where supervise is called in the process of the health thread, the
\* interrupt is that process's own and may come at any time.
SupKeyboardInterrupt(i) ==
    /\ runsIn[i] = MainProc \/ main_pc = "terminate"
    /\ upd[i] = "none"
    /\ sup_pc[i] \in TryPcs \cup HandlerPcs
    /\ sup_pc' = [sup_pc EXCEPT ![i] = IF sup_pc[i] \in TryPcs THEN "kbd" ELSE "crashed"]
    /\ restart_count' = [restart_count EXCEPT ![i] = 0]
    /\ proc' = [proc EXCEPT ![i] = IF sup_pc[i] \in TryPcs THEN @ ELSE Unbound]
    /\ UNCHANGED <<child, killpg, memVars>>
    /\ SupFrame

\* except KeyboardInterrupt: update_server_status(idx, process_status='STOPPED')
SupPublishStopped(i) ==
    /\ SupReady(i, "kbd")
    /\ update_server_status(i, i, [process_status |-> "STOPPED"])
    /\ sup_pc' = [sup_pc EXCEPT ![i] = "kill"]
    /\ UNCHANGED <<restart_count, proc, child, killpg>>
    /\ SupFrame

\* _kill_process_tree(proc); break; if idx in SERVER_PROCESSES: del ...; return.
\* `proc` is unbound before the first Popen returned (UnboundLocalError leaves
\* supervise); killpg of an exited child raises inside _kill_process_tree, which
\* swallows it. Either way the worker process ends here.
SupKillProcessTree(i) ==
    /\ SupReady(i, "kill")
    /\ IF proc[i] = Unbound
         THEN /\ sup_pc' = [sup_pc EXCEPT ![i] = "crashed"]
              /\ UNCHANGED killpg
         ELSE /\ sup_pc' = [sup_pc EXCEPT ![i] = "returned"]
              /\ killpg' = [killpg EXCEPT ![i] = @ \/ child[i] = "alive"]
    /\ proc' = [proc EXCEPT ![i] = Unbound]
    /\ SERVER_PROCESSES' = [SERVER_PROCESSES EXCEPT ![runsIn[i]] =
                              [k \in (DOMAIN @) \ {i} |-> @[k]]]
    /\ UNCHANGED <<restart_count, child, memVars>>
    /\ UNCHANGED <<mainVars, healthVars, fixedVars>>

\* the CARLA child of instance i exits (on its own, or killed from outside)
ChildExit(i) ==
    /\ child[i] = "alive"
    /\ child' = [child EXCEPT ![i] = "exited"]
    /\ UNCHANGED <<sup_pc, restart_count, proc, killpg, memVars>>
    /\ SupFrame

supervise(i) ==
    \/ SupPublishStarting(i) \/ SupPopen(i) \/ SupRegister(i) \/ SupPublishRunning(i)
    \/ SupWait(i) \/ SupPublishExited(i) \/ SupSleep(i)
    \/ SupPublishError(i) \/ SupErrorSleep(i)

supervise_interrupt(i) ==
    \/ SupKeyboardInterrupt(i) \/ SupPublishStopped(i) \/ SupKillProcessTree(i)

\* --------------------------------------------------------- health monitor
LsofKinds == {"ok", "timeout", "notfound", "error"}
LsofOutcomes == {[kind |-> "ok", ports |-> ps] : ps \in SUBSET ExpectedPorts}
                  \cup {[kind |-> k, ports |-> {}] : k \in LsofKinds \ {"ok"}}

\* a slip that would handle the timeout only
get_listening_ports_lsof_timeout_only(o) ==
    [raised |-> o.kind \in {"notfound", "error"},
     ports |-> IF o.kind = "ok" THEN o.ports ELSE {}]

\* the set parsed from lsof's output; TimeoutExpired, FileNotFoundError and
\* every other Exception are caught and give set(): nothing is raised
get_listening_ports_lsof(o) ==
    [raised |-> FALSE, ports |-> IF o.kind = "ok" THEN o.ports ELSE {}]

\* listening_ports=None, the default of check_port_listening's parameter
NonePorts == {NoneN}

\* a slip that would test `if not listening_ports`, true of the empty set too
check_port_listening_if_falsy(port, ports, o) ==
    IF ports = NonePorts \/ ports = {}
      THEN [listening |-> port \in get_listening_ports_lsof(o).ports, calls |-> 1]
      ELSE [listening |-> port \in ports, calls |-> 0]

\* check_port_listening(port, listening_ports): lsof is called (outcome o) only
\* if listening_ports is None; `calls` is the number of lsof calls made
check_port_listening(port, ports, o) ==
    IF ports = NonePorts
      THEN [listening |-> port \in get_listening_ports_lsof(o).ports, calls |-> 1]
      ELSE [listening |-> port \in ports, calls |-> 0]

\* SERVER_PROCESSES.get(idx)
GetProc(p, idx) == IF idx \in DOMAIN SERVER_PROCESSES[p] THEN SERVER_PROCESSES[p][idx]
                   ELSE Unbound

\* proc.poll() is None: handle h of instance idx is its current child, not exited
PollIsNone(idx, h) == h = proc[idx] /\ child[idx] = "alive"

\* a slip that would take any registered handle for a running process
process_running_without_poll(idx, h) == h # Unbound

\* process_running = proc is not None and proc.poll() is None
process_running(idx, h) == h # Unbound /\ PollIsNone(idx, h)

\* psutil readings of a live process (0 when it is gone or inaccessible)
Usages == {<<0, 0>>, <<1, 0>>, <<1, 1>>}

\* a slip that would call a running process whose port is closed DOWN
VerdictDownUnlessListening(running, listening, ts, usage) ==
    IF running /\ listening
      THEN [health_status |-> "HEALTHY", process_status |-> "RUNNING",
            last_health_check |-> ts, memory_mb |-> usage[1],
            cpu_percent |-> usage[2], last_error |-> NoneS]
      ELSE [health_status |-> "DOWN", process_status |-> "EXITED",
            last_health_check |-> ts, memory_mb |-> 0, cpu_percent |-> 0]

\* a slip that would write EXITED for a process whose port is not open yet
VerdictStartingAsExited(running, listening, ts, usage) ==
    IF running
      THEN IF listening
             THEN [health_status |-> "HEALTHY", process_status |-> "RUNNING",
                   last_health_check |-> ts, memory_mb |-> usage[1],
                   cpu_percent |-> usage[2], last_error |-> NoneS]
             ELSE [health_status |-> "STARTING", process_status |-> "EXITED",
                   last_health_check |-> ts, last_error |-> "Port not listening yet",
                   memory_mb |-> usage[1], cpu_percent |-> usage[2]]
      ELSE [health_status |-> "DOWN", process_status |-> "EXITED",
            last_health_check |-> ts, memory_mb |-> 0, cpu_percent |-> 0]

\* the keyword arguments of the cycle's update for one instance
Verdict(running, listening, ts, usage) ==
    IF running
      THEN IF listening
             THEN [health_status |-> "HEALTHY", process_status |-> "RUNNING",
                   last_health_check |-> ts, memory_mb |-> usage[1],
                   cpu_percent |-> usage[2], last_error |-> NoneS]
             ELSE [health_status |-> "STARTING", process_status |-> "RUNNING",
                   last_health_check |-> ts, last_error |-> "Port not listening yet",
                   memory_mb |-> usage[1], cpu_percent |-> usage[2]]
      ELSE [health_status |-> "DOWN", process_status |-> "EXITED",
            last_health_check |-> ts, memory_mb |-> 0, cpu_percent |-> 0]

NoKwargs == [health_status |-> "none"]
NoSeen == [running |-> FALSE, alive |-> FALSE]

\* the launcher process, and with it its daemon threads, is still there
MainAlive == main_pc \notin {"done", "sigterm"}

HealthReady(pc) == health_pc = pc /\ upd[HealthThread] = "none" /\ MainAlive

HealthFrame == UNCHANGED <<mainVars, supVars, SERVER_PROCESSES, fixedVars>>

\* a slip that would loop `while True:` and never test the event
HealthLoopTestIgnoringStop ==
    /\ HealthReady("top")
    /\ cycle < MaxCycles
    /\ health_pc' = "observe"
    /\ cycle' = cycle + 1
    /\ lsof_calls' = 0
    /\ UNCHANGED <<h_idx, listening_ports, lsof_failed, h_kwargs, h_seen, memVars>>
    /\ HealthFrame

\* STOP_MONITORING.wait(HEALTH_CHECK_INTERVAL) returns (the interval has passed,
\* or the event is set); while not STOP_MONITORING.is_set(): timestamp = now
HealthLoopTest ==
    /\ HealthReady("top")
    /\ STOP_MONITORING \/ cycle < MaxCycles
    /\ IF STOP_MONITORING
         THEN health_pc' = "stopped" /\ UNCHANGED cycle
         ELSE health_pc' = "observe" /\ cycle' = cycle + 1
    /\ lsof_calls' = IF STOP_MONITORING THEN lsof_calls ELSE 0
    /\ UNCHANGED <<h_idx, listening_ports, lsof_failed, h_kwargs, h_seen, memVars>>
    /\ HealthFrame

\* listening_ports = get_listening_ports_lsof()
HealthObserve ==
    /\ HealthReady("observe")
    /\ \E o \in LsofOutcomes :
         LET r == get_listening_ports_lsof(o) IN
         /\ listening_ports' = r.ports
         /\ lsof_failed' = (o.kind # "ok")
         /\ health_pc' = IF r.raised THEN "crashed" ELSE "check"
    /\ lsof_calls' = lsof_calls + 1
    /\ h_idx' = 0
    /\ h_kwargs' = NoKwargs
    /\ h_seen' = NoSeen
    /\ UNCHANGED <<cycle, memVars>>
    /\ HealthFrame

\* for idx in range(NUM_SERVERS): read the process, its usage, and pick the verdict
HealthCheck ==
    /\ HealthReady("check")
    /\ LET h == GetProc(MainProc, h_idx)
           running == process_running(h_idx, h)
       IN \E u \in Usages, o \in LsofOutcomes :
            LET is_listening == check_port_listening(HealthPort(h_idx),
                                                     listening_ports, o)
            IN /\ running \/ u = <<0, 0>>
               /\ h_kwargs' = Verdict(running, running /\ is_listening.listening,
                                      cycle, u)
               /\ lsof_calls' = IF running THEN lsof_calls + is_listening.calls
                                 ELSE lsof_calls
    /\ h_seen' = [running |-> (/\ h_idx \in DOMAIN SERVER_PROCESSES[MainProc]
                               /\ SERVER_PROCESSES[MainProc][h_idx] = proc[h_idx]
                               /\ child[h_idx] = "alive"),
                  alive |-> child[h_idx] = "alive"]
    /\ health_pc' = "write"
    /\ UNCHANGED <<cycle, h_idx, listening_ports, lsof_failed, memVars>>
    /\ HealthFrame

\* update_server_status(idx, health_status=..., ...); next idx, or the wait
HealthWrite ==
    /\ HealthReady("write")
    /\ update_server_status(HealthThread, h_idx, h_kwargs)
    /\ h_idx' = h_idx + 1
    /\ health_pc' = IF h_idx + 1 < NUM_SERVERS THEN "check" ELSE "top"
    /\ UNCHANGED <<cycle, listening_ports, lsof_failed, h_kwargs, h_seen, lsof_calls>>
    /\ HealthFrame

health_check_monitor ==
    HealthLoopTest \/ HealthObserve \/ HealthCheck \/ HealthWrite

\* -------------------------------------------------------------------- main
MainFrame == UNCHANGED <<memVars, SERVER_PROCESSES, fixedVars>>

\* dashboard_proc = start_dashboard(LOG_DIR)
MainStartDashboard ==
    /\ main_pc = "start_dashboard"
    /\ dash' = "running"
    /\ main_pc' = "start_threads"
    /\ UNCHANGED <<STOP_MONITORING, supVars, healthVars>>
    /\ MainFrame

\* health_monitor.start() (and the loggers, which touch none of this state)
MainStartThreads ==
    /\ main_pc = "start_threads"
    /\ health_pc' = "top"
    /\ main_pc' = "start_workers"
    /\ UNCHANGED <<dash, STOP_MONITORING, supVars, h_idx, cycle, listening_ports,
                   lsof_failed, h_kwargs, h_seen, lsof_calls>>
    /\ MainFrame

\* for idx in range(NUM_SERVERS): mp.Process(target=supervise, args=(idx,)).start()
MainStartWorkers ==
    /\ main_pc = "start_workers"
    /\ sup_pc' = [i \in Indices |-> "loop"]
    /\ main_pc' = "join"
    /\ UNCHANGED <<dash, STOP_MONITORING, healthVars, restart_count, proc, child,
                   killpg>>
    /\ MainFrame

\* except KeyboardInterrupt: STOP_MONITORING.set()
MainKeyboardInterrupt ==
    /\ main_pc = "join"
    /\ STOP_MONITORING' = TRUE
    /\ main_pc' = "terminate"
    /\ UNCHANGED <<dash, supVars, healthVars>>
    /\ MainFrame

\* for p in workers: p.terminate(); for p in workers: p.join()
\* SIGTERM ends a worker at once (supervise installs no handler for it), and
\* with the worker its memory
MainTerminateWorkers ==
    /\ main_pc = "terminate"
    /\ sup_pc' = [i \in Indices |-> IF sup_pc[i] \in TerminalPcs THEN sup_pc[i] ELSE "killed"]
    /\ restart_count' = [i \in Indices |-> 0]
    /\ proc' = [i \in Indices |-> Unbound]
    /\ SERVER_PROCESSES' = [p \in Procs |-> IF p = MainProc THEN SERVER_PROCESSES[p]
                                            ELSE EmptyDict]
    /\ main_pc' = "stop_dashboard"
    /\ UNCHANGED <<dash, STOP_MONITORING, healthVars, child, killpg, memVars, fixedVars>>

\* dashboard_proc.terminate(); wait(timeout=5), kill() on timeout
MainStopDashboard ==
    /\ main_pc = "stop_dashboard"
    /\ dash' = "terminated"
    /\ main_pc' = "done"
    /\ UNCHANGED <<STOP_MONITORING, supVars, healthVars>>
    /\ MainFrame

\* SIGTERM delivered to the launcher: main() installs no handler for it and
\* catches KeyboardInterrupt only, so the default action ends the process at
\* once, and with it its threads. Nothing of lines 656-677 runs: the workers
\* and the dashboard are not signalled and live on.
MainSigterm ==
    /\ main_pc \notin {"done", "sigterm"}
    /\ main_pc' = "sigterm"
    /\ UNCHANGED <<dash, STOP_MONITORING, supVars, healthVars>>
    /\ MainFrame

main ==
    \/ MainStartDashboard \/ MainStartThreads \/ MainStartWorkers
    \/ MainKeyboardInterrupt \/ MainTerminateWorkers
    \/ MainStopDashboard

\* --------------------------------------------------------------- dashboard
\* the launcher hands NUM_SERVERS and START_PORT over in the environment
DASH_NUM_SERVERS == NUM_SERVERS
DASH_START_PORT == START_PORT
\* datetime.now() of the dashboard process
DashNow == 0

\* dashboard.get_listening_ports_lsof: `except Exception: return set()`
dash_get_listening_ports_lsof(o) == IF o.kind = "ok" THEN o.ports ELSE {}

\* reading STATUS_FILE: no file, or what open() and json.load() make of it
ReadStatusFile(f) ==
    CASE f.kind = "missing" -> [exists |-> FALSE, exc |-> "none", data |-> <<>>]
      [] f.kind = "truncated" -> [exists |-> TRUE, exc |-> "JSONDecodeError", data |-> <<>>]
      [] OTHER -> [exists |-> TRUE, exc |-> "none", data |-> f.servers]

\* a slip that would catch only the errors of open()
CaughtOSErrorOnly(exc) == exc = "OSError"

\* `except Exception:` catches every error the read can raise
Caught(exc) == exc \in {"JSONDecodeError", "OSError"}

\* a slip that would upgrade an entry without looking its port up
VerifyWithoutPort(server, ports) ==
    [server EXCEPT
       !.health_status = IF @ = "DOWN" THEN "HEALTHY" ELSE @,
       !.process_status = IF @ = "EXITED" THEN "RUNNING" ELSE @]

\* "Verify status with lsof": a listening port turns DOWN into HEALTHY and
\* EXITED into RUNNING
Verify(server, ports) ==
    IF server.port \in ports
      THEN [server EXCEPT
              !.health_status = IF @ = "DOWN" THEN "HEALTHY" ELSE @,
              !.process_status = IF @ = "EXITED" THEN "RUNNING" ELSE @]
      ELSE server

\* "Fallback: construct status from lsof"
FallbackRecord(idx, ports) ==
    LET port == DASH_START_PORT + (idx * DASH_PORT_STEP)
        is_listening == port \in ports
    IN [index |-> idx, port |-> port,
        process_status |-> IF is_listening THEN "RUNNING" ELSE "UNKNOWN",
        health_status |-> IF is_listening THEN "HEALTHY" ELSE "UNKNOWN",
        last_health_check |-> IF is_listening THEN DashNow ELSE NoneN,
        restart_count |-> 0, uptime_start |-> NoneN,
        last_error |-> IF is_listening THEN NoneS ELSE "Status file not available",
        pid |-> NoneN, memory_mb |-> 0, cpu_percent |-> 0]

Fallback(ports) == [k \in 1 .. DASH_NUM_SERVERS |-> FallbackRecord(k - 1, ports)]

\* get_server_status(): the 'servers' it returns and where they come from
get_server_status(f, ports) ==
    LET r == ReadStatusFile(f) IN
    IF r.exists /\ r.exc = "none"
      THEN [source |-> "file", servers |-> [k \in DOMAIN r.data |-> Verify(r.data[k], ports)]]
      ELSE IF r.exc = "none" \/ Caught(r.exc)
             THEN [source |-> "fallback", servers |-> Fallback(ports)]
             ELSE [source |-> "raised", servers |-> <<>>]

\* the writer of the handoff has stopped: health_check_monitor has left its loop
WriterStopped == health_pc = "stopped"

\* a pull-mode query (/api/status, or one round of /stream) served by the dashboard
DashQuery ==
    /\ dash = "running"
    /\ \E o \in LsofOutcomes :
         LET ports == dash_get_listening_ports_lsof(o) IN
         dash_result' = get_server_status(statusFile, ports) @@
                          [stale |-> WriterStopped, file |-> statusFile, ports |-> ports]
    /\ UNCHANGED <<mainVars, healthVars, supVars, memVars, SERVER_PROCESSES, runsIn,
                   ENABLE_DASHBOARD, streamVars, logVars, configVars>>

\* ----------------------------------------------------- dashboard: /stream
Subscribers == 1 .. NumSubscribers

\* a slip that would run the server with threaded=False: one request at a time
ServedOneAtATime(s) == \A t \in Subscribers \ {s} : stream_pc[t] \in {"none", "closed"}

\* app.run(..., threaded=True): every request is handled by a thread of its own
Served(s) == TRUE

NoEvent == "none"

WebFrame == UNCHANGED <<mainVars, healthVars, supVars, memVars, SERVER_PROCESSES,
                        runsIn, dash_result, ENABLE_DASHBOARD>>

\* GET /stream: stream() makes a new event_stream() generator for the request
StreamConnect(s) ==
    /\ dash = "running"
    /\ Served(s)
    /\ stream_pc[s] = "none"
    /\ stream_pc' = [stream_pc EXCEPT ![s] = "build"]
    /\ client' = [client EXCEPT ![s] = "reading"]
    /\ UNCHANGED <<stream_event, built, received, logVars, configVars>>
    /\ WebFrame

\* a slip that would sleep after a failure without yielding anything
StreamBuildSilentOnError(s) ==
    /\ Served(s)
    /\ stream_pc[s] = "build"
    /\ Len(built[s]) < MaxEvents
    /\ \E ok \in BOOLEAN :
         /\ built' = [built EXCEPT ![s] = Append(@, ok)]
         /\ stream_event' = [stream_event EXCEPT ![s] = IF ok THEN "data" ELSE NoEvent]
         /\ stream_pc' = [stream_pc EXCEPT ![s] = IF ok THEN "yield" ELSE "sleep"]
    /\ UNCHANGED <<client, received, logVars, configVars>>
    /\ WebFrame

\* one round of `while True:` up to its yield: the try body builds the data
\* event, or something in it raises and `except Exception` builds the error event
StreamBuild(s) ==
    /\ Served(s)
    /\ stream_pc[s] = "build"
    /\ Len(built[s]) < MaxEvents
    /\ \E ok \in BOOLEAN :
         /\ built' = [built EXCEPT ![s] = Append(@, ok)]
         /\ stream_event' = [stream_event EXCEPT ![s] = IF ok THEN "data" ELSE "error"]
    /\ stream_pc' = [stream_pc EXCEPT ![s] = "yield"]
    /\ UNCHANGED <<client, received, logVars, configVars>>
    /\ WebFrame

\* the server writes the yielded event to the connection and resumes the
\* generator, which goes to its time.sleep; a client that does not read
\* holds this thread in the write
StreamYield(s) ==
    /\ Served(s)
    /\ stream_pc[s] = "yield"
    /\ client[s] = "reading"
    /\ received' = [received EXCEPT ![s] = Append(@, stream_event[s])]
    /\ stream_pc' = [stream_pc EXCEPT ![s] = "sleep"]
    /\ UNCHANGED <<stream_event, client, built, logVars, configVars>>
    /\ WebFrame

\* the write to a connection that is gone fails: the server closes the
\* generator, GeneratorExit is raised at its yield and the loop is left
StreamClose(s) ==
    /\ Served(s)
    /\ stream_pc[s] = "yield"
    /\ client[s] = "gone"
    /\ stream_pc' = [stream_pc EXCEPT ![s] = "closed"]
    /\ UNCHANGED <<stream_event, client, built, received, logVars, configVars>>
    /\ WebFrame

\* time.sleep(2), or time.sleep(5) after an error event, returns
StreamSleep(s) ==
    /\ Served(s)
    /\ stream_pc[s] = "sleep"
    /\ stream_pc' = [stream_pc EXCEPT ![s] = "build"]
    /\ UNCHANGED <<stream_event, client, built, received, logVars, configVars>>
    /\ WebFrame

\* the client end, as the pending write finds it: it has stopped reading, reads
\* again, or has dropped the connection (what the client does while the
\* generator builds or sleeps shows at the next write only)
ClientStep(s) ==
    /\ stream_pc[s] = "yield"
    /\ client[s] \in {"reading", "blocked"}
    /\ \E c \in {"reading", "blocked", "gone"} \ {client[s]} :
         client' = [client EXCEPT ![s] = c]
    /\ UNCHANGED <<stream_pc, stream_event, built, received, logVars, configVars>>
    /\ WebFrame

stream(s) ==
    \/ StreamConnect(s) \/ StreamBuild(s) \/ StreamYield(s)
    \/ StreamClose(s) \/ StreamSleep(s)

\* -------------------------------------------------- dashboard: /api/logs
valid_logs == {"servers", "health", "ports", "psutil", "gpu"}

\* what a request can name: the categories, and names that are none of them
LogTypes == valid_logs \cup {"dashboard", "carla_server_0"}

LogFile(log_type) == log_type

\* a log file is not there, cannot be read, or holds lines
LogFileKinds == {"missing", "unreadable", "lines"}
LogLines == <<1, 2, 3>>
LOG_TAIL_LINES == 100

Max(a, b) == IF a > b THEN a ELSE b

\* f.readlines()[-lines:]
LastLines(seq, lines) == SubSeq(seq, Max(1, Len(seq) - lines + 1), Len(seq))

\* read_log_tail(log_file, lines): [] when the file is missing and, through
\* `except Exception`, when it cannot be read; `touched` is the file probed
read_log_tail(files, log_file, lines) ==
    [touched |-> {log_file},
     lines |-> IF files[log_file] = "lines" THEN LastLines(LogLines, lines) ELSE <<>>]

\* a slip that would take every name for a category
EveryLogValid(log_type) == TRUE

\* log_type in valid_logs
ValidLog(log_type) == log_type \in valid_logs

\* api_logs(log_type)
api_logs(files, log_type) ==
    IF ~ValidLog(log_type)
      THEN [code |-> 400, error |-> "Invalid log type", logs |-> <<>>, touched |-> {}]
      ELSE LET r == read_log_tail(files, LogFile(log_type), LOG_TAIL_LINES) IN
           [code |-> 200, error |-> NoneS, logs |-> r.lines, touched |-> r.touched]

NoReply == [log_type |-> NoneS, code |-> 0, error |-> NoneS, logs |-> <<>>, touched |-> {}]

\* GET /api/logs/<log_type>
ApiLogs ==
    /\ dash = "running"
    /\ \E t \in LogTypes :
         log_reply' = [log_type |-> t] @@ api_logs(log_files, t)
    /\ UNCHANGED <<log_files, streamVars, configVars>>
    /\ WebFrame

\* ------------------------------------------------------------ the program
NoResult == [source |-> "none", servers |-> <<>>, stale |-> FALSE,
             file |-> MissingFile, ports |-> {}]

\* no request has reached the dashboard yet
WebIdle ==
    /\ stream_pc = [s \in Subscribers |-> "none"]
    /\ stream_event = [s \in Subscribers |-> NoEvent]
    /\ client = [s \in Subscribers |-> "none"]
    /\ built = [s \in Subscribers |-> <<>>]
    /\ received = [s \in Subscribers |-> <<>>]
    /\ log_reply = NoReply

\* the loggers have written their files
LogsWritten == log_files = [f \in LogTypes |-> IF f \in valid_logs THEN "lines" ELSE "missing"]

\* nothing computed from the settings yet
NotLaunched == <<>>
ConfigAsWritten ==
    /\ cfg = Settings
    /\ cmd = [v3 |-> NotLaunched, multiserver |-> NotLaunched]
    /\ fallback_ports = NotLaunched

InitLauncher ==
    /\ main_pc = "start_dashboard"
    /\ dash = "not_started"
    /\ STOP_MONITORING = FALSE
    /\ runsIn = [i \in Indices |-> Worker(i)]
    /\ SERVER_STATUS = [p \in Procs |-> IF p = MainProc THEN initialize_server_status
                                        ELSE EmptyDict]
    /\ SERVER_PROCESSES = [p \in Procs |-> EmptyDict]
    /\ STATUS_LOCK = [p \in Procs |-> NoThread]
    /\ statusFile = MissingFile
    /\ health_pc = "not_started"
    /\ h_idx = 0
    /\ cycle = 0
    /\ listening_ports = {}
    /\ lsof_failed = FALSE
    /\ h_kwargs = NoKwargs
    /\ h_seen = NoSeen
    /\ lsof_calls = 0
    /\ sup_pc = [i \in Indices |-> "not_started"]
    /\ restart_count = [i \in Indices |-> 0]
    /\ proc = [i \in Indices |-> Unbound]
    /\ child = [i \in Indices |-> "none"]
    /\ killpg = [i \in Indices |-> FALSE]
    /\ upd = [t \in Threads |-> "none"]
    /\ enc = [t \in Threads |-> <<>>]
    /\ dash_result = NoResult

\* the program as it is configured in the source: ENABLE_DASHBOARD = True
Init ==
    /\ InitLauncher
    /\ ENABLE_DASHBOARD = TRUE
    /\ WebIdle
    /\ ConfigAsWritten
    /\ LogsWritten

\* the launcher as deployed: main, its health thread, one spawned worker
\* process per instance, and the CARLA children
Next ==
    \/ main
    \/ health_check_monitor
    \/ \E t \in Threads : SaveOpen(t) \/ SaveDump(t)
    \/ \E i \in Indices : supervise(i) \/ supervise_interrupt(i) \/ ChildExit(i)

Spec == Init /\ [][Next]_vars

\* the launcher without a stop signal, under the scheduling the operating
\* system gives every supervisor: a step that stays possible is taken
NextRun ==
    \/ MainStartDashboard \/ MainStartThreads \/ MainStartWorkers
    \/ \E i \in Indices : supervise(i) \/ ChildExit(i)

SpecRun == Init /\ [][NextRun]_vars /\ \A i \in Indices : WF_vars(supervise(i))
                /\ WF_vars(MainStartDashboard \/ MainStartThreads \/ MainStartWorkers)

\* the writer and the reader of the handoff file: the launcher's health thread
\* (the only caller of update_server_status in the process that has a LOG_DIR)
\* and the dashboard's queries, with a file system that may refuse a write
NextDash ==
    \/ main
    \/ health_check_monitor
    \/ SaveOpen(HealthThread) \/ SaveDump(HealthThread) \/ SaveFail(HealthThread)
    \/ DashQuery

SpecDash == Init /\ [][NextDash]_vars

\* the module's functions run by the threads of one process, the arrangement
\* its lock and its dictionaries are written for: supervise(0) is called in
\* the process that owns the store and the health thread (the other instances
\* have no supervisor yet)
InitInProcess ==
    /\ main_pc = "join"
    /\ dash = "running"
    /\ STOP_MONITORING = FALSE
    /\ runsIn = [i \in Indices |-> MainProc]
    /\ SERVER_STATUS = [p \in Procs |-> IF p = MainProc THEN initialize_server_status
                                        ELSE EmptyDict]
    /\ SERVER_PROCESSES = [p \in Procs |-> EmptyDict]
    /\ STATUS_LOCK = [p \in Procs |-> NoThread]
    /\ statusFile = MissingFile
    /\ health_pc = "top"
    /\ h_idx = 0
    /\ cycle = 0
    /\ listening_ports = {}
    /\ lsof_failed = FALSE
    /\ h_kwargs = NoKwargs
    /\ h_seen = NoSeen
    /\ lsof_calls = 0
    /\ sup_pc = [i \in Indices |-> IF i = 0 THEN "loop" ELSE "not_started"]
    /\ restart_count = [i \in Indices |-> 0]
    /\ proc = [i \in Indices |-> Unbound]
    /\ child = [i \in Indices |-> "none"]
    /\ killpg = [i \in Indices |-> FALSE]
    /\ upd = [t \in Threads |-> "none"]
    /\ enc = [t \in Threads |-> <<>>]
    /\ dash_result = NoResult
    /\ ENABLE_DASHBOARD = TRUE
    /\ WebIdle
    /\ ConfigAsWritten
    /\ LogsWritten

NextInProcess ==
    \/ health_check_monitor
    \/ \E t \in Threads : SaveOpen(t) \/ SaveDump(t)
    \/ supervise(0) \/ ChildExit(0)

SpecInProcess == InitInProcess /\ [][NextInProcess]_vars

\* the same arrangement, with the KeyboardInterrupt of that process raised in
\* supervise(0)
NextInProcessStop ==
    \/ NextInProcess
    \/ supervise_interrupt(0)

SpecInProcessStop == InitInProcess /\ [][NextInProcessStop]_vars

\* the launcher, its workers and the two signals it can be sent (the health
\* thread is left out: it takes no part in the shutdown)
NextSignals ==
    \/ main
    \/ MainSigterm
    \/ \E i \in Indices : supervise(i) \/ supervise_interrupt(i) \/ ChildExit(i)

SpecSignals == Init /\ [][NextSignals]_vars

\* the launcher and its health thread up to and through the shutdown, the
\* thread being scheduled as long as the process lives
NextStop ==
    \/ main
    \/ health_check_monitor
    \/ SaveOpen(HealthThread) \/ SaveDump(HealthThread)

SpecStop == Init /\ [][NextStop]_vars
                 /\ WF_vars(health_check_monitor \/ SaveOpen(HealthThread)
                               \/ SaveDump(HealthThread))

\* the launcher running: its health thread, and the worker processes of the
\* first two instances (no stop signal). The first instance's simulator, once
\* launched, runs on, so that its supervisor stays in wait() or keeps failing
\* to launch; the second's may exit at any time
NextWorkers ==
    \/ MainStartDashboard \/ MainStartThreads \/ MainStartWorkers
    \/ health_check_monitor
    \/ SaveOpen(HealthThread) \/ SaveDump(HealthThread)
    \/ \E i \in {0, 1} : supervise(i)
    \/ ChildExit(1)

SpecWorkers == Init /\ [][NextWorkers]_vars

ConfigFrame ==
    UNCHANGED <<mainVars, healthVars, supVars, memVars, SERVER_PROCESSES, runsIn,
                dash_result, ENABLE_DASHBOARD, streamVars, logVars, cfg>>

\* carla_athena_multiserver_v3.main(): supervise(idx) for idx in range(NUM_SERVERS)
LaunchV3 ==
    /\ cmd.v3 = NotLaunched
    /\ cmd' = [cmd EXCEPT !.v3 = [idx \in 0 .. (cfg.NUM_SERVERS - 1) |->
                                     SuperviseCmd(cfg, GpuMapV3(cfg), idx)]]
    /\ UNCHANGED fallback_ports
    /\ ConfigFrame

\* carla_multiserver.main(): supervise(idx) for idx in range(NUM_SERVERS)
LaunchMultiserver ==
    /\ cmd.multiserver = NotLaunched
    /\ cmd' = [cmd EXCEPT !.multiserver = [idx \in 0 .. (cfg.NUM_SERVERS - 1) |->
                                     SuperviseCmd(cfg, GpuMapMultiserver(cfg), idx)]]
    /\ UNCHANGED fallback_ports
    /\ ConfigFrame

\* the dashboard, started by the v3 launcher, answers without a handoff
DashFallback ==
    /\ fallback_ports = NotLaunched
    /\ fallback_ports' = DashFallbackPorts(cfg)
    /\ UNCHANGED cmd
    /\ ConfigFrame

\* the launchers and the dashboard under any settings
InitConfig ==
    /\ InitLauncher
    /\ ENABLE_DASHBOARD = TRUE
    /\ WebIdle
    /\ LogsWritten
    /\ cfg \in Configs
    /\ cmd = [v3 |-> NotLaunched, multiserver |-> NotLaunched]
    /\ fallback_ports = NotLaunched

NextConfig == LaunchV3 \/ LaunchMultiserver \/ DashFallback

SpecConfig == InitConfig /\ [][NextConfig]_vars

\* the launcher with either setting of ENABLE_DASHBOARD
InitFlag ==
    /\ InitLauncher
    /\ ENABLE_DASHBOARD \in BOOLEAN
    /\ WebIdle
    /\ ConfigAsWritten
    /\ LogsWritten

SpecFlag == InitFlag /\ [][NextSignals]_vars

\* the dashboard and the subscribers of its /stream
NextStream ==
    \/ MainStartDashboard
    \/ \E s \in Subscribers : stream(s) \/ ClientStep(s)

SpecStream == Init /\ [][NextStream]_vars

\* the dashboard and the requests to /api/logs, with any state of the log files
InitLogs ==
    /\ InitLauncher
    /\ ENABLE_DASHBOARD = TRUE
    /\ WebIdle
    /\ ConfigAsWritten
    /\ log_files \in [LogTypes -> LogFileKinds]

NextLogs == MainStartDashboard \/ ApiLogs

SpecLogs == InitLogs /\ [][NextLogs]_vars

\* ------------------------------------------------------------------ claims
\* the launcher's store, and the instance whose verdict the health thread has
\* just written (h_kwargs and h_seen still hold what that check saw)
Store == SERVER_STATUS[MainProc]
JustWritten == health_pc \in {"check", "top"} /\ h_idx >= 1
Last == h_idx - 1

\* C1: a health cycle writes verdict HEALTHY for an instance only if, in that
\* cycle, its process was seen running (a handle is registered and has not
\* exited) and its port was in the listening set observed for the cycle.
C1_HealthyOnlyIfRunningAndListening ==
    (JustWritten /\ Store[Last].health_status = "HEALTHY")
        => (h_seen.running /\ Port(Last) \in listening_ports)

C1_Witness ==
    JustWritten /\ Store[Last].health_status = "HEALTHY" /\ Last = 0

\* C2: when the child launched by instance i's supervisor has not exited and
\* port(i) is in the observed listening set, the health cycle sees the process
\* running and writes HEALTHY with phase RUNNING; it never writes DOWN for an
\* instance whose child is alive at the time of the check.
C2_AliveAndListeningIsHealthy ==
    (JustWritten /\ h_seen.alive)
        => /\ Store[Last].health_status # "DOWN"
           /\ Port(Last) \in listening_ports
                => /\ h_seen.running
                   /\ Store[Last].health_status = "HEALTHY"
                   /\ Store[Last].process_status = "RUNNING"

\* C3: every lifecycle write of a supervisor becomes part of the one store the
\* health thread and the handoff file share: once supervise(i) has published
\* RUNNING with the pid, the store holds that pid and the restart counter.
C3_LifecycleWritesReachStore ==
    \A i \in Indices :
        (sup_pc[i] = "wait" /\ upd[i] = "none")
            => /\ Store[i].pid = Pid(i, proc[i])
               /\ Store[i].restart_count = restart_count[i]

\* C4: after the keyboard interrupt has made main terminate the workers, every
\* instance's phase in the store is STOPPED once the shutdown is complete.
C4_AllStoppedAfterShutdown ==
    main_pc = "done" => \A i \in Indices : Store[i].process_status = "STOPPED"

\* C5: a snapshot taken for persistence while other threads call
\* update_server_status is never torn: while a thread is encoding the store,
\* it holds the lock and what it has encoded so far still agrees with the store.
C5_SnapshotNotTorn ==
    \A t \in Threads :
        upd[t] = "dump"
            => /\ STATUS_LOCK[ProcOf(t)] = t
               /\ \A k \in DOMAIN enc[t] :
                     enc[t][k] = Values(SERVER_STATUS[ProcOf(t)])[k].process_status

\* a snapshot is in progress while another thread is at an update call
C5_Witness ==
    /\ upd[HealthThread] = "dump"
    /\ sup_pc[0] = "pub_running"
    /\ upd[0] = "none"
    /\ Store[0].process_status = "STARTING"

\* C6: when the port observation fails, get_listening_ports_lsof gives the
\* empty set and raises nothing; the cycle still writes a verdict for every
\* instance, STARTING for a running process and DOWN otherwise, never
\* HEALTHY; and the health thread lives on to run the next cycle.
C6_LsofFailureDegrades ==
    /\ health_pc # "crashed"
    /\ lsof_failed => listening_ports = {}
    /\ (JustWritten /\ lsof_failed)
          => /\ Store[Last].last_health_check = cycle
             /\ Store[Last].health_status = IF h_seen.running THEN "STARTING" ELSE "DOWN"
    /\ (health_pc = "top" /\ cycle >= 1)
          => \A i \in Indices : Store[i].last_health_check = cycle

\* the cycle after a failed observation has begun, the failed one having
\* written STARTING for the running instance and DOWN for the other
C6_Witness ==
    /\ cycle = 2
    /\ health_pc = "observe"
    /\ lsof_failed
    /\ Store[0].health_status = "STARTING"
    /\ Store[0].last_health_check = 1
    /\ Store[1].health_status = "DOWN"
    /\ Store[1].last_health_check = 1

\* C7: a pull-mode query made while the handoff file is missing or cannot be
\* parsed raises nothing: it returns one entry per index 0..NUM_SERVERS-1,
\* HEALTHY/RUNNING when the entry's port is in the observed listening set,
\* UNKNOWN with last_error 'Status file not available' otherwise.
C7_MissingHandoffDegrades ==
    (dash_result.source # "none" /\ dash_result.file.kind \in {"missing", "truncated"})
        => /\ dash_result.source = "fallback"
           /\ Len(dash_result.servers) = NUM_SERVERS
           /\ \A k \in 1 .. Len(dash_result.servers) :
                 LET srv == dash_result.servers[k] IN
                 /\ srv.index = k - 1
                 /\ IF srv.port \in dash_result.ports
                      THEN /\ srv.health_status = "HEALTHY"
                           /\ srv.process_status = "RUNNING"
                      ELSE /\ srv.health_status = "UNKNOWN"
                           /\ srv.process_status = "UNKNOWN"
                           /\ srv.last_error = "Status file not available"

\* a query that found the file truncated by a save in progress, with one
\* port listening and one not
C7_Witness ==
    /\ dash_result.source = "fallback"
    /\ dash_result.file.kind = "truncated"
    /\ dash_result.ports = {Port(0)}

\* C8: when the handoff exists but its writer has stopped updating it, a
\* pull-mode query does not return its contents but a snapshot synthesized
\* from direct port observation.
C8_StaleHandoffNotReturned ==
    (dash_result.stale /\ dash_result.file.kind = "doc")
        => dash_result.source = "fallback"

\* instance i's child has exited (or was never launched) and Popen has not been
\* called since; past MaxRestarts restarts the model launches no more
AwaitingRelaunch(i) ==
    /\ restart_count[i] <= MaxRestarts
    /\ \/ sup_pc[i] \in {"pub_exited", "sleep", "loop", "popen"} \cup TerminalPcs
       \/ sup_pc[i] \in {"reg", "pub_running", "wait"} /\ child[i] = "exited"

\* C9: absent a stop signal, every exit of an instance's child is eventually
\* followed by a new launch of that instance, however many restarts came
\* before: no supervisor stays for ever between an exit and the next Popen.
C9_ExitLeadsToRelaunch ==
    \A i \in Indices : []<>(~AwaitingRelaunch(i))

\* an instance whose child is running again after an exit
C9_Witness ==
    \E i \in Indices : restart_count[i] >= 1 /\ proc[i] >= 2 /\ child[i] = "alive"

\* C10: an error raised while launching the child is recovered inside the
\* supervisor and phase ERROR is published with the error text as last_error:
\* during the delay that follows, the store shows it.
C10_LaunchErrorPublished ==
    \A i \in Indices :
        (sup_pc[i] = "err_sleep" /\ upd[i] = "none")
            => /\ Store[i].process_status = "ERROR"
               /\ Store[i].last_error = LaunchErrorText

\* C11: a KeyboardInterrupt arriving at any point of supervise's loop (before
\* the first child, while waiting on it, during the delay, after a launch
\* failure) is handled: supervise returns without an unhandled error, having
\* sent SIGTERM to the process group of its child if that child is alive.
C11_InterruptHandledAtAnyPoint ==
    \A i \in Indices :
        /\ sup_pc[i] # "crashed"
        /\ (sup_pc[i] = "returned" /\ child[i] = "alive") => killpg[i]

\* C12: an interrupt and a termination signal delivered to the launcher while
\* it waits for its workers both start the orderly shutdown: the signal sets
\* the stop event, and when main ends every worker has been terminated and the
\* dashboard has been stopped.
C12_BothSignalsShutDownOrderly ==
    [][(main_pc \in {"join", "terminate", "stop_dashboard"} /\ main_pc' # main_pc)
          => /\ STOP_MONITORING'
             /\ main_pc' \in {"done", "sigterm"}
                  => /\ \A i \in Indices : sup_pc'[i] \in TerminalPcs
                     /\ dash' = "terminated"]_vars

Lifecycle(r) == [f \in {"process_status", "restart_count", "pid", "last_error",
                        "uptime_start"} |-> r[f]]
HealthFields(r) == [f \in {"health_status", "last_health_check", "memory_mb",
                           "cpu_percent"} |-> r[f]]

\* C14: an update made by the health thread leaves the lifecycle fields
\* (process_status, restart_count, pid, last_error, uptime_start) of every
\* instance unchanged.
C14_HealthLeavesLifecycleFields ==
    [][(upd[HealthThread] = "none" /\ upd'[HealthThread] = "save")
          => \A i \in Indices : Lifecycle(Store'[i]) = Lifecycle(Store[i])]_vars

\* C15: no step of a supervisor (its STARTING, RUNNING, EXITED, ERROR and
\* STOPPED updates among them) changes the health_status, last_health_check,
\* memory_mb or cpu_percent of any instance.
C15_SupervisorLeavesHealthFields ==
    [][(\E i \in Indices : sup_pc'[i] # sup_pc[i])
          => \A j \in Indices : HealthFields(Store'[j]) = HealthFields(Store[j])]_vars

\* the supervisor has published STOPPED over a record the health thread had
\* marked HEALTHY
C15_Witness ==
    /\ sup_pc[0] = "kill"
    /\ Store[0].process_status = "STOPPED"
    /\ Store[0].health_status = "HEALTHY"
    /\ Store[0].restart_count = 1

\* C16: update_server_status is a merge: the call changes exactly the fields
\* it is given, in the record of its index only; every other field of that
\* record and every other record keep their values, and no key comes or goes.
C16_UpdateIsMerge ==
    [][\A t \in Threads :
          (upd[t] = "none" /\ upd'[t] = "save")
            => LET old == SERVER_STATUS[ProcOf(t)]
                   new == SERVER_STATUS'[ProcOf(t)]
                   idx == IF t = HealthThread THEN h_idx ELSE t
               IN /\ DOMAIN new = DOMAIN old
                  /\ \A j \in DOMAIN old \ {idx} : new[j] = old[j]
                  /\ DOMAIN new[idx] = DOMAIN old[idx]
                  /\ t = HealthThread
                       => \A f \in DOMAIN old[idx] :
                             new[idx][f] = IF f \in DOMAIN h_kwargs THEN h_kwargs[f]
                                           ELSE old[idx][f]]_vars

\* the health thread has merged HEALTHY into a record that keeps the pid, the
\* restart count and the start time its supervisor wrote
C16_Witness ==
    /\ upd[HealthThread] = "save"
    /\ h_idx = 1
    /\ Store[0].health_status = "HEALTHY"
    /\ Store[0].pid = Pid(0, 2)
    /\ Store[0].restart_count = 1
    /\ Store[0].uptime_start = 2

\* C17: once an update has been persisted, and while no other update is under
\* way, the records of the handoff document equal the store, instance by
\* instance: the document never lags behind the store between updates.
C17_HandoffEqualsStore ==
    (Store # initialize_server_status /\ \A t \in Threads : upd[t] = "none")
        => /\ statusFile.kind = "doc"
           /\ statusFile.servers = Values(Store)

\* the document holds what the supervisor and the health thread both wrote
C17_Witness ==
    /\ \A t \in Threads : upd[t] = "none"
    /\ statusFile.kind = "doc"
    /\ statusFile.servers[1].pid = Pid(0, 1)
    /\ statusFile.servers[1].health_status = "HEALTHY"
    /\ statusFile.servers[2].health_status = "DOWN"

\* C18: a reader of the handoff file, whenever it reads, finds the complete
\* document of one update, never an empty or truncated one.
C18_ReaderSeesCompleteDocument ==
    dash_result.source # "none" => dash_result.file.kind # "truncated"

\* C19: when writing the handoff fails, update_server_status returns to its
\* caller (the thread lives on and the lock is free again) and the fields just
\* merged stay in the store; later updates and cycles go on.
C19_PersistFailureSwallowed ==
    /\ health_pc # "crashed"
    /\ upd[HealthThread] = "none" => STATUS_LOCK[MainProc] = NoThread
    /\ (JustWritten /\ upd[HealthThread] = "none")
          => \A f \in DOMAIN h_kwargs : Store[Last][f] = h_kwargs[f]

\* no save has succeeded so far, and the second cycle has written its
\* verdicts into the store all the same
C19_Witness ==
    /\ statusFile.kind = "missing"
    /\ cycle = 2
    /\ health_pc = "top"
    /\ upd[HealthThread] = "none"
    /\ \A i \in Indices : Store[i].last_health_check = 2

\* C20: each health cycle writes one verdict per instance, fixed by what the
\* cycle saw: DOWN with phase EXITED and zero memory and CPU for a process not
\* running, STARTING for a running process whose port is not listening; it
\* never writes UNKNOWN.
C20_VerdictPerInstance ==
    /\ JustWritten
         => /\ Store[Last].health_status = h_kwargs.health_status
            /\ h_kwargs.health_status \in {"HEALTHY", "STARTING", "DOWN"}
            /\ ~h_seen.running
                 => /\ Store[Last].health_status = "DOWN"
                    /\ h_kwargs.process_status = "EXITED"
                    /\ Store[Last].memory_mb = 0
                    /\ Store[Last].cpu_percent = 0
            /\ (h_seen.running /\ Port(Last) \notin listening_ports)
                 => Store[Last].health_status = "STARTING"
    /\ health_pc \in {"check", "write"}
         => \A i \in Indices :
               Store[i].last_health_check =
                  IF i < h_idx THEN cycle ELSE IF cycle = 1 THEN NoneN ELSE cycle - 1
    /\ \A i \in Indices :
          Store[i].last_health_check # NoneN => Store[i].health_status # "UNKNOWN"

\* instance 0 was HEALTHY after the first cycle; in the second its process
\* still runs, its port has left the listening set, and the verdict is STARTING
C20_Witness ==
    /\ cycle = 2
    /\ health_pc = "write"
    /\ h_idx = 0
    /\ Store[0].health_status = "HEALTHY"
    /\ h_seen.running
    /\ h_kwargs.health_status = "STARTING"

\* C21: the port and the device of an instance depend on its index and the
\* configuration only: the record of the store, the health check and the
\* supervisor derive the same port and the same device for the same index, in
\* every state; two different indices never share a port; so a health check
\* that finds the process running calls it HEALTHY exactly when the port held
\* in the store's record is in the listening set
C21_PortAndDeviceAgree ==
    /\ \A i \in Indices :
          /\ Store[i].port = Port(i)
          /\ HealthPort(i) = Port(i)
          /\ Store[i].gpu_id = GpuOf(i)
    /\ \A i, j \in Indices : i # j => Port(i) # Port(j)
    /\ (health_pc = "write" /\ h_seen.running)
          => (h_kwargs.health_status = "HEALTHY" <=> Store[h_idx].port \in listening_ports)

\* the health check has found the child launched by supervise(0) listening on
\* the port of record 0
C21_Witness ==
    /\ health_pc = "write"
    /\ h_idx = 0
    /\ proc[0] # Unbound
    /\ h_seen.running
    /\ h_kwargs.health_status = "HEALTHY"
    /\ Store[0].port \in listening_ports

\* C30: get_listening_ports_lsof() is called exactly once in a health cycle,
\* whatever the number of instances: the per-instance checks use the set of
\* that one call and make no further call, also when the set is empty
C30_OneObservationPerCycle ==
    /\ lsof_calls <= 1
    /\ health_pc \in {"check", "write"} => lsof_calls = 1
    /\ (health_pc = "top" /\ cycle >= 1) => lsof_calls = 1

\* a running process has been checked against an empty listening set, with
\* the one call of the cycle
C30_Witness ==
    /\ health_pc = "write"
    /\ listening_ports = {}
    /\ h_seen.running
    /\ h_kwargs.health_status = "STARTING"
    /\ lsof_calls = 1

\* the events that the rounds with outcomes b give: a data event for a
\* round whose try body ran through, an error event for one that raised
Events(b) == [k \in 1 .. Len(b) |-> IF b[k] THEN "data" ELSE "error"]

\* what subscriber s has of the stream
StreamOf(s) == <<stream_pc[s], stream_event[s], built[s], received[s]>>

\* C22: every subscriber of /stream has an event sequence of its own. Whatever
\* the other subscribers do (read slowly, block, drop the connection), a
\* subscriber can connect, its generator can build its next event, a reading
\* client is delivered the event, and the sleep ends; a step of one stream or
\* of one client leaves every other subscriber's stream as it was; and a
\* stream ends only when its own client is gone
C22_SubscribersIndependent ==
    /\ [](\A s \in Subscribers :
            /\ (dash = "running" /\ stream_pc[s] = "none") => ENABLED StreamConnect(s)
            /\ (stream_pc[s] = "build" /\ Len(built[s]) < MaxEvents)
                  => ENABLED StreamBuild(s)
            /\ (stream_pc[s] = "yield" /\ client[s] = "reading") => ENABLED StreamYield(s)
            /\ stream_pc[s] = "sleep" => ENABLED StreamSleep(s))
    /\ [][\A s \in Subscribers :
            /\ (StreamOf(s)' # StreamOf(s) \/ client'[s] # client[s])
                  => \A t \in Subscribers \ {s} :
                        StreamOf(t)' = StreamOf(t) /\ client'[t] = client[t]
            /\ (stream_pc'[s] = "closed" /\ stream_pc[s] # "closed")
                  => client[s] = "gone"]_vars

\* one subscriber holds its thread in a write that does not drain and has
\* received nothing; another, reading, has been delivered the events of all
\* its rounds
C22_Witness ==
    \E s, t \in Subscribers :
        /\ s # t
        /\ stream_pc[s] = "yield" /\ client[s] = "blocked" /\ received[s] = <<>>
        /\ Len(received[t]) = MaxEvents
        /\ client[t] = "reading"

\* C23: for a connected subscriber every round of event_stream() emits exactly
\* one event, whether or not the status has changed: the events delivered are,
\* in order, one per round made (the round under way excepted while its event
\* is being written); a round that fails emits an error event and the stream
\* goes on with the next round; the stream ends only when the client is gone
C23_OneEventPerRound ==
    \A s \in Subscribers :
        /\ stream_pc[s] \in {"build", "sleep"} => received[s] = Events(built[s])
        /\ stream_pc[s] \in {"yield", "closed"}
              => /\ built[s] # <<>>
                 /\ received[s] = Events(SubSeq(built[s], 1, Len(built[s]) - 1))
                 /\ stream_event[s] = Events(built[s])[Len(built[s])]
        /\ stream_pc[s] = "none" => received[s] = <<>>
        /\ stream_pc[s] = "closed" => client[s] = "gone"

\* a subscriber has been delivered an error event and, after it, the data
\* event of the next round
C23_Witness ==
    \E s \in Subscribers :
        /\ built[s] = <<FALSE, TRUE>>
        /\ received[s] = <<"error", "data">>
        /\ client[s] = "reading"

\* C24: /api/logs serves the categories servers, health, ports, psutil and gpu
\* and no other name: a request for any other name is answered with an error
\* (400) and touches no file; a request for a category whose log file is
\* missing is answered 200 with an empty list
C24_LogCategories ==
    log_reply.log_type # NoneS =>
        /\ log_reply.code = 200
              <=> log_reply.log_type \in {"servers", "health", "ports", "psutil", "gpu"}
        /\ log_reply.code # 200
              => /\ log_reply.code = 400
                 /\ log_reply.error = "Invalid log type"
                 /\ log_reply.touched = {}
                 /\ log_reply.logs = <<>>
        /\ log_reply.code = 200
              => /\ log_reply.touched = {log_reply.log_type}
                 /\ log_reply.error = NoneS
                 /\ log_files[log_reply.log_type] = "missing" => log_reply.logs = <<>>
                 /\ log_files[log_reply.log_type] = "lines" => log_reply.logs # <<>>

\* the health log is missing while a file of another name is there: the
\* request for health is answered with an empty list
C24_Witness ==
    /\ log_reply.log_type = "health"
    /\ log_files["health"] = "missing"
    /\ log_files["dashboard"] = "lines"
    /\ log_reply.code = 200
    /\ log_reply.logs = <<>>

\* C25: with ENABLE_DASHBOARD False main() does not start the dashboard
C25_DashboardOnlyIfEnabled ==
    ~ENABLE_DASHBOARD => dash = "not_started"

\* C26: the phase held in the store is NOT_STARTED at first, and every change
\* of it, whoever writes it, is a step of the lifecycle STARTING -> RUNNING ->
\* (EXITED | STOPPED | ERROR) -> STARTING
C26_StoredPhaseFollowsLifecycle ==
    [][\A i \in Indices :
         LET a == Store[i].process_status
             b == Store'[i].process_status
         IN a # b
              => \/ a = "NOT_STARTED" /\ b = "STARTING"
                 \/ a = "STARTING" /\ b = "RUNNING"
                 \/ a = "RUNNING" /\ b \in {"EXITED", "STOPPED", "ERROR"}
                 \/ a \in {"EXITED", "STOPPED", "ERROR"} /\ b = "STARTING"]_vars

C31_StopEndsHealthMonitor ==
    /\ [][STOP_MONITORING => cycle' = cycle]_vars
    /\ [][(STOP_MONITORING /\ health_pc = "top" /\ health_pc' # "top")
            => health_pc' = "stopped"]_vars
    /\ (STOP_MONITORING ~> (health_pc = "stopped" \/ ~MainAlive))

\* the health thread has left its loop after a cycle, while main() is still
\* terminating the workers
C31_Witness ==
    /\ STOP_MONITORING
    /\ health_pc = "stopped"
    /\ cycle >= 1
    /\ main_pc = "terminate"

SupervisorOf(i) == <<sup_pc[i], restart_count[i], proc[i], child[i], killpg[i], upd[i]>>

\* C33: supervisors progress independently. Whatever the other supervisors do
\* (wait for a child, sleep, fail to launch again and again), a supervisor
\* that is at its launch, its restart delay or the top of its loop can take
\* that step, and one whose child has exited can go on; the health thread can
\* take the next step of its cycle; and a step of one supervisor or of its
\* child changes nothing of another supervisor nor of the health thread
C33_SupervisorsIndependent ==
    /\ [](/\ \A i \in Indices :
                upd[i] = "none" =>
                  /\ (sup_pc[i] = "loop" /\ restart_count[i] <= MaxRestarts)
                        => ENABLED SupPublishStarting(i)
                  /\ sup_pc[i] = "popen" => ENABLED SupPopen(i)
                  /\ sup_pc[i] = "reg" => ENABLED SupRegister(i)
                  /\ sup_pc[i] = "pub_running" => ENABLED SupPublishRunning(i)
                  /\ (sup_pc[i] = "wait" /\ child[i] = "exited") => ENABLED SupWait(i)
                  /\ sup_pc[i] = "pub_exited" => ENABLED SupPublishExited(i)
                  /\ sup_pc[i] = "sleep" => ENABLED SupSleep(i)
                  /\ sup_pc[i] = "pub_error" => ENABLED SupPublishError(i)
                  /\ sup_pc[i] = "err_sleep" => ENABLED SupErrorSleep(i)
          /\ (upd[HealthThread] = "none" /\ MainAlive) =>
                  /\ (health_pc = "top" /\ cycle < MaxCycles) => ENABLED HealthLoopTest
                  /\ health_pc = "observe" => ENABLED HealthObserve
                  /\ health_pc = "check" => ENABLED HealthCheck
                  /\ health_pc = "write" => ENABLED HealthWrite)
    /\ [][\A i \in Indices :
            (main_pc' = main_pc /\ SupervisorOf(i)' # SupervisorOf(i))
               => /\ \A j \in Indices \ {i} : SupervisorOf(j)' = SupervisorOf(j)
                  /\ UNCHANGED <<healthVars, upd[HealthThread], STATUS_LOCK[MainProc]>>]_vars

\* supervisor 0 waits for a child that lives while supervisor 1, after a
\* failed launch and a restart, has its child running, and the health thread
\* has completed its cycles
C33_Witness ==
    /\ sup_pc[0] = "wait" /\ child[0] = "alive"
    /\ sup_pc[1] = "wait" /\ child[1] = "alive" /\ restart_count[1] = MaxRestarts
    /\ proc[1] = 1
    /\ health_pc = "top" /\ cycle = MaxCycles

\* the fields of a status record other than the two the verification may touch
OtherFields == {"index", "port", "gpu_id", "restart_count", "uptime_start",
                "last_health_check", "last_error", "pid", "memory_mb", "cpu_percent"}

\* C34: a query answered from a readable handoff returns one entry per
\* persisted entry; an entry whose port is not in the observed listening set
\* is returned exactly as persisted (nothing is downgraded); an entry whose
\* port is listening has DOWN turned into HEALTHY and EXITED into RUNNING,
\* whoever owns the port, and every other value and field as persisted
C34_VerifyOnlyUpgradesListening ==
    (dash_result.source = "file") =>
        /\ dash_result.file.kind = "doc"
        /\ DOMAIN dash_result.servers = DOMAIN dash_result.file.servers
        /\ \A k \in DOMAIN dash_result.servers :
              LET persisted == dash_result.file.servers[k]
                  returned == dash_result.servers[k]
              IN /\ DOMAIN returned = DOMAIN persisted
                 /\ \A f \in DOMAIN persisted \ {"health_status", "process_status"} :
                       returned[f] = persisted[f]
                 /\ DOMAIN persisted \ {"health_status", "process_status"} = OtherFields
                 /\ IF persisted.port \in dash_result.ports
                      THEN /\ returned.health_status =
                                 (IF persisted.health_status = "DOWN" THEN "HEALTHY"
                                  ELSE persisted.health_status)
                           /\ returned.process_status =
                                 (IF persisted.process_status = "EXITED" THEN "RUNNING"
                                  ELSE persisted.process_status)
                      ELSE returned = persisted

\* a handoff that says DOWN and EXITED for both instances, read while the
\* first one's port is listening and the second's is not
C34_Witness ==
    /\ dash_result.source = "file"
    /\ dash_result.ports = {Port(0)}
    /\ dash_result.file.servers[1].health_status = "DOWN"
    /\ dash_result.file.servers[1].process_status = "EXITED"
    /\ dash_result.servers[1].health_status = "HEALTHY"
    /\ dash_result.servers[1].process_status = "RUNNING"
    /\ dash_result.file.servers[2].health_status = "DOWN"
    /\ dash_result.servers[2] = dash_result.file.servers[2]

\* the instances a launch has put on device d
OnDevice(launch, d) == {i \in DOMAIN launch : launch[i].gpu_id = d}
\* the indices GPU_MAP has a key for: below NUM_GPUS * SERVERS_PER_GPU in the
\* v3 launcher, below NUM_GPUS in carla_multiserver
MappedV3(i) == i < cfg.NUM_GPUS * cfg.SERVERS_PER_GPU
MappedMultiserver(i) == i < cfg.NUM_GPUS
Devices == 0 .. (MaxConfigServers + 1)

C36_FallbackPortIsLaunchPort ==
    (cmd.v3 # NotLaunched /\ fallback_ports # NotLaunched) =>
        /\ DOMAIN fallback_ports = DOMAIN cmd.v3
        /\ \A idx \in DOMAIN cmd.v3 : fallback_ports[idx] = cmd.v3[idx].port

C39_SnapshotValuesInRange ==
    (dash_result.source \in {"file", "fallback"}) =>
        \A k \in DOMAIN dash_result.servers :
            /\ dash_result.servers[k].process_status \in
                  {"NOT_STARTED", "STARTING", "RUNNING", "EXITED", "STOPPED", "ERROR"}
            /\ dash_result.servers[k].health_status \in
                  {"HEALTHY", "STARTING", "DOWN", "UNKNOWN"}

====
